---- MODULE Spec2Model ----
(***************************************************************************)
(* A model of claude_sessions.py: the transcript indexer                   *)
(* (get_saved_sessions), its bounded tail read, the attach command         *)
(* (cmd_attach, attach_to_session) and the interactive selector            *)
(* (SessionsApp, cmd_list).                                                *)
(*                                                                         *)
(* Four specifications share the module's variables; each one fixes the    *)
(* variables it does not use:                                              *)
(*   SpecTail    the byte-level read of one transcript file (lines 147-160)*)
(*   SpecIndex   get_saved_sessions, one transcript file per step          *)
(*   SpecAttach  cmd_attach with an argument, then attach_to_session       *)
(*   SpecTui     SessionsApp's event loop, then cmd_list's hand-off        *)
(***************************************************************************)
EXTENDS Integers, Sequences, FiniteSets

VARIABLES
    \* ---- SpecTail: one open transcript file
    file_bytes,        \* the file's content, a sequence of bytes
    first_line,        \* first_line (line 148), a sequence of characters
    last_line,         \* last_line (line 159), a sequence of characters
    tpc,               \* position in lines 147-160
    \* ---- get_saved_sessions / cmd_attach / SessionsApp
    sessions,          \* the local list `sessions`, or self.sessions
    scanned,           \* the transcript files enumerated so far (history)
    ipc,               \* position in get_saved_sessions
    \* ---- cmd_attach, attach_to_session
    arg,               \* args.session
    console,           \* the last message printed by cmd_attach
    target,            \* the session handed to attach_to_session, or None
    proc,              \* the process: its image, or the exception that ended it
    cwd_changed,       \* whether os.chdir succeeded
    cpc,               \* position in cmd_attach / cmd_list
    \* ---- SessionsApp
    rows,              \* row keys of the DataTable, top to bottom
    cursor_row,        \* table.cursor_row
    selected_session,  \* self.selected_session
    last_op,           \* the handler that ran last (history)
    old_rows,          \* the row keys before the last refresh (history)
    old_cursor         \* table.cursor_row before the last refresh (history)

tailVars == <<file_bytes, first_line, last_line, tpc>>
indexVars == <<sessions, scanned, ipc>>
attachVars == <<arg, console, target, proc, cwd_changed, cpc>>
tuiVars == <<rows, cursor_row, selected_session, last_op, old_rows, old_cursor>>
vars == <<tailVars, indexVars, attachVars, tuiVars>>

None == "None"

Min(a, b) == IF a < b THEN a ELSE b
Max(a, b) == IF a > b THEN a ELSE b

(***************************************************************************)
(* Bounds.                                                                 *)
(***************************************************************************)
\* The read window of line 156 is 4096 bytes; the model scales it down so
\* that files longer than the window can be enumerated.
ReadWindow == 3
\* The longest transcript file of SpecTail, in bytes.
MaxFileLen == 5

(***************************************************************************)
(* Bytes and text.  A file is a sequence of bytes: "a" and "b" are ASCII   *)
(* letters, "n" is the newline, and "L" "T" are the lead and the           *)
(* continuation byte of one two-byte UTF-8 character, decoded to "e".      *)
(***************************************************************************)
Bytes == {"a", "b", "n", "L", "T"}

\* Sequences over S of length exactly n / at most n.
RECURSIVE SeqsOfLen(_, _)
SeqsOfLen(S, n) ==
    IF n = 0 THEN {<<>>}
    ELSE {Append(s, x) : s \in SeqsOfLen(S, n - 1), x \in S}

SeqsUpTo(S, n) == UNION {SeqsOfLen(S, k) : k \in 0..n}

\* Text decoding of b[i..] as the file object does it (UTF-8, errors=strict):
\* the decoded characters, or DecodeError when a byte is no valid start
\* of a character or a lead byte has no continuation.
DecodeError == <<"UnicodeDecodeError">>

RECURSIVE Decode(_, _)
Decode(b, i) ==
    IF i > Len(b) THEN <<>>
    ELSE IF b[i] = "T" THEN DecodeError
    ELSE IF b[i] = "L" THEN
        IF i + 1 > Len(b) \/ b[i + 1] # "T" THEN DecodeError
        ELSE LET rest == Decode(b, i + 2)
             IN IF rest = DecodeError THEN rest ELSE <<"e">> \o rest
    ELSE LET rest == Decode(b, i + 1)
         IN IF rest = DecodeError THEN rest ELSE <<b[i]>> \o rest

\* The files of SpecTail: the byte sequences up to MaxFileLen that are valid
\* UTF-8 and newline-delimited records (no empty line; the last line with or
\* without its newline).
NoEmptyLine(b) ==
    /\ b # <<>> => b[1] # "n"
    /\ \A i \in 1..(Len(b) - 1) : ~(b[i] = "n" /\ b[i + 1] = "n")

ValidFiles ==
    {b \in SeqsUpTo(Bytes, MaxFileLen) : Decode(b, 1) # DecodeError /\ NoEmptyLine(b)}

\* str.strip(): leading and trailing whitespace (here the newline) removed.
RECURSIVE LStrip(_)
LStrip(s) == IF s # <<>> /\ Head(s) = "n" THEN LStrip(Tail(s)) ELSE s

RECURSIVE RStrip(_)
RStrip(s) ==
    IF s # <<>> /\ s[Len(s)] = "n" THEN RStrip(SubSeq(s, 1, Len(s) - 1)) ELSE s

Strip(s) == RStrip(LStrip(s))

\* s.split('\n')[-1]: what follows the last newline of s (all of s if none).
RECURSIVE LastPiece(_)
LastPiece(s) ==
    IF s = <<>> THEN <<>>
    ELSE IF s[Len(s)] = "n" THEN <<>>
    ELSE Append(LastPiece(SubSeq(s, 1, Len(s) - 1)), s[Len(s)])

\* f.readline(): the characters up to and including the first newline.
RECURSIVE ReadLine(_)
ReadLine(s) ==
    IF s = <<>> THEN <<>>
    ELSE IF Head(s) = "n" THEN <<"n">>
    ELSE <<Head(s)>> \o ReadLine(Tail(s))

\* The length in bytes of the text s once encoded.
RECURSIVE ByteLen(_)
ByteLen(s) ==
    IF s = <<>> THEN 0
    ELSE (IF Head(s) = "e" THEN 2 ELSE 1) + ByteLen(Tail(s))

\* Lines 154-157: the offset the tail read starts from.
TailOffset(b) ==
    LET file_size == Len(b)
        read_size == Min(ReadWindow, file_size)
    IN Max(0, file_size - read_size)

\* Lines 158-159: the text read from the offset, stripped, split at newlines,
\* the last piece taken; the decode error when the offset is inside a character.
TailLastLine(b) ==
    LET text == Decode(b, TailOffset(b) + 1)
    IN IF text = DecodeError THEN text ELSE LastPiece(Strip(text))

\* The last record obtained by reading the whole file.
WholeLastLine(b) == LastPiece(Strip(Decode(b, 1)))

(***************************************************************************)
(* SpecTail: lines 147-160 on one file, byte by byte.  The records are     *)
(* opaque here (json.loads is modelled in SpecIndex); a line counts as a   *)
(* record.                                                                 *)
(***************************************************************************)
IdleTail == file_bytes = <<>> /\ first_line = <<>> /\ last_line = <<>> /\ tpc = "idle"

\* Lines 147-150: open, readline, strip; an empty first line skips the file.
ReadFirstLine ==
    /\ tpc = "open"
    /\ first_line' = Strip(ReadLine(Decode(file_bytes, 1)))
    /\ tpc' = IF first_line' = <<>> THEN "skipped_blank" ELSE "seek"
    /\ UNCHANGED <<file_bytes, last_line, indexVars, attachVars, tuiVars>>

\* Lines 154-159: seek to the window, read, strip, split, take the last piece.
\* A UnicodeDecodeError is a ValueError: line 179 catches it and the file is
\* skipped.
ReadTail ==
    /\ tpc = "seek"
    /\ LET got == TailLastLine(file_bytes)
       IN IF got = DecodeError
          THEN /\ tpc' = "skipped_error"
               /\ UNCHANGED last_line
          ELSE /\ tpc' = "read"
               /\ last_line' = got
    /\ UNCHANGED <<file_bytes, first_line, indexVars, attachVars, tuiVars>>

(***************************************************************************)
(* Transcript files at the level of records (SpecIndex, SpecAttach,        *)
(* SpecTui).  A record is what json.loads makes of one line:               *)
(*   json     "blank" (an empty line), "invalid" (JSONDecodeError),        *)
(*            "other" (valid JSON that is no object: a list, a string, a   *)
(*            number, null) or "object"                                    *)
(*   type     the 'type' field                                             *)
(*   message  the 'message' field: "object" (or absent), or "other"        *)
(*   cwd      the 'cwd' field: "absent", a path, or "null"                 *)
(*   ts       the 'timestamp' field: absent, no string, a string that is   *)
(*            no ISO-8601 time, or an ISO-8601 time: the instant utc       *)
(*            written with the UTC offset off (wall clock utc + off)       *)
(***************************************************************************)
\* The latest instant a record is written at.
MaxTime == 1

Offsets == {0, 1}

Timestamps ==
    {[kind |-> k, utc |-> 0, off |-> 0] : k \in {"absent", "nonstring", "malformed"}}
    \cup {[kind |-> "iso", utc |-> t, off |-> o] : t \in 0..MaxTime, o \in Offsets}

BlankRecord ==
    [json |-> "blank", type |-> "none", message |-> "object", cwd |-> "absent",
     ts |-> [kind |-> "absent", utc |-> 0, off |-> 0]]

\* The records other than objects: only the json field tells them apart.
PlainRecords == {[BlankRecord EXCEPT !.json = j] : j \in {"invalid", "other"}}

\* First records: the fields lines 163-173 read.
FirstRecords(cwds) ==
    PlainRecords \cup
    {[json |-> "object", type |-> tm[1], message |-> tm[2], cwd |-> c, ts |-> t] :
        tm \in {<<"user", "object">>, <<"user", "other">>, <<"assistant", "object">>},
        c \in cwds, t \in Timestamps}

\* Last records: line 169 reads the timestamp only.
LastRecords ==
    PlainRecords \cup
    {[json |-> "object", type |-> "assistant", message |-> "object", cwd |-> "absent",
      ts |-> t] : t \in Timestamps}

\* Session identifiers (the file's stem), as sequences of characters.
Ids == {<<"a">>, <<"a", "b">>, <<"b">>}

\* A transcript is append-only and chronological: a later record is not
\* written before an earlier one.
Chronological(first, last) ==
    (first.ts.kind = "iso" /\ last.ts.kind = "iso") => first.ts.utc <= last.ts.utc

\* A transcript file: its stem, its first record and its last record (the same
\* record in a file of one line; BlankRecord twice in an empty file).  The
\* last record is the line the tail read of lines 154-159 yields; SpecTail
\* models that read byte by byte.
FilesOver(firsts) ==
    {[id |-> i, first |-> BlankRecord, last |-> BlankRecord] : i \in Ids}
    \cup {[id |-> i, first |-> r, last |-> r] : i \in Ids, r \in firsts}
    \cup {f \in [id : Ids, first : firsts, last : LastRecords] :
            Chronological(f.first, f.last)}

Files == FilesOver(FirstRecords({"absent", "/w"}))

\* Line 139-141: the directory name decoded; the model has one project directory.
project_path == "/proj"

NoSession == [session_id |-> <<>>, cwd |-> None, created |-> 0, last_activity |-> 0]

Skip == [outcome |-> "skip", exc |-> None, session |-> NoSession]
Raise(e) == [outcome |-> "raise", exc |-> e, session |-> NoSession]

\* Lines 168-169: datetime.fromisoformat(entry['timestamp'].replace(...)) on an
\* object: the exception raised, or None.
TimestampError(ts) ==
    CASE ts.kind = "absent" -> "KeyError"
      [] ts.kind = "nonstring" -> "AttributeError"
      [] ts.kind = "malformed" -> "ValueError"
      [] OTHER -> None

\* Lines 174-175: .replace(tzinfo=None) keeps the wall clock and drops the offset.
NaiveTime(ts) == ts.utc + ts.off

\* Line 179: the exceptions the loop body catches.
Caught == {"JSONDecodeError", "KeyError", "ValueError"}

\* Lines 144-180 on one file, in the order the statements run: the first
\* exception decides; the session of lines 171-178 when there is none.
\* The summary (lines 162-166) is left out of the session; the calls that
\* compute it are kept.
FirstException(f) ==
    IF f.first.json = "invalid" THEN "JSONDecodeError"                \* line 152
    ELSE IF f.last.json = "invalid" THEN "JSONDecodeError"            \* line 160
    ELSE IF f.first.json = "other" THEN "AttributeError"              \* line 163
    ELSE IF f.first.type = "user" /\ f.first.message = "other"
         THEN "AttributeError"                                        \* line 164
    ELSE IF TimestampError(f.first.ts) # None
         THEN TimestampError(f.first.ts)                              \* line 168
    ELSE IF f.last.json = "other" THEN "TypeError"                    \* line 169
    ELSE TimestampError(f.last.ts)                                    \* line 169

IndexFile(f) ==
    IF f.first.json = "blank" THEN Skip                               \* line 149
    ELSE LET e == FirstException(f)
         IN IF e \in Caught THEN Skip
            ELSE IF e # None THEN Raise(e)
            ELSE [outcome |-> "session", exc |-> None,
                  session |->
                    [session_id |-> f.id,
                     cwd |-> IF f.first.cwd = "absent" THEN project_path
                             ELSE f.first.cwd,
                     created |-> NaiveTime(f.first.ts),
                     last_activity |-> NaiveTime(f.last.ts)]]

\* list.sort(key=last_activity, reverse=True), line 182: a stable sort, so
\* sessions with equal keys keep the order they were appended in.  x goes
\* behind every element whose key is not smaller.
RECURSIVE InsertByActivity(_, _)
InsertByActivity(sorted, x) ==
    IF sorted = <<>> THEN <<x>>
    ELSE IF Head(sorted).last_activity >= x.last_activity
         THEN <<Head(sorted)>> \o InsertByActivity(Tail(sorted), x)
         ELSE <<x>> \o sorted

RECURSIVE SortByActivity(_)
SortByActivity(seq) ==
    IF seq = <<>> THEN <<>>
    ELSE InsertByActivity(SortByActivity(SubSeq(seq, 1, Len(seq) - 1)), seq[Len(seq)])

\* get_saved_sessions as one call on a directory listing (the files in the
\* order iterdir/glob yields them): the sorted sessions, or the exception that
\* left the loop.
RECURSIVE ScanAll(_, _)
ScanAll(listing, acc) ==
    IF listing = <<>> THEN [status |-> "returned", exc |-> None, sessions |-> acc]
    ELSE LET r == IndexFile(Head(listing))
         IN IF r.outcome = "raise"
            THEN [status |-> "raised", exc |-> r.exc, sessions |-> <<>>]
            ELSE ScanAll(Tail(listing),
                         IF r.outcome = "session" THEN Append(acc, r.session) ELSE acc)

GetSavedSessions(listing) ==
    LET r == ScanAll(listing, <<>>)
    IN IF r.status = "raised" THEN r
       ELSE [r EXCEPT !.sessions = SortByActivity(r.sessions)]

\* The listings of a directory: its files have distinct names.
RECURSIVE ListingsOfLen(_, _)
ListingsOfLen(files, n) ==
    IF n = 0 THEN {<<>>}
    ELSE {Append(l, f) : l \in ListingsOfLen(files, n - 1), f \in files}

DistinctIds(l) == \A i, j \in 1..Len(l) : i # j => l[i].id # l[j].id

ListingsOver(files) ==
    {l \in UNION {ListingsOfLen(files, n) : n \in 0..Cardinality(Ids)} : DistinctIds(l)}

\* What get_saved_sessions can return over the listings of `files`.
SnapshotsOver(files) == {GetSavedSessions(l) : l \in ListingsOver(files)}

(***************************************************************************)
(* Strings, as sequences of characters.                                    *)
(***************************************************************************)
Digits == <<"0", "1", "2", "3", "4", "5", "6", "7", "8", "9">>

Alphabet == <<"-">> \o Digits \o <<"a", "b", "c">>

CharOrd(c) == CHOOSE i \in 1..Len(Alphabet) : Alphabet[i] = c

\* str.isdigit(): not empty, and every character a digit.
IsDigit(str) ==
    /\ str # <<>>
    /\ \A i \in 1..Len(str) : \E d \in 1..Len(Digits) : Digits[d] = str[i]

\* int(str) of a string of digits.
RECURSIVE IntOf(_)
IntOf(str) ==
    IF str = <<>> THEN 0
    ELSE 10 * IntOf(SubSeq(str, 1, Len(str) - 1))
         + (CHOOSE d \in 0..9 : Digits[d + 1] = str[Len(str)])

\* str.startswith(prefix).
StartsWith(str, prefix) ==
    /\ Len(prefix) <= Len(str)
    /\ SubSeq(str, 1, Len(prefix)) = prefix

\* s < t in the lexicographic order of strings.
RECURSIVE LexLess(_, _)
LexLess(s, t) ==
    IF t = <<>> THEN FALSE
    ELSE IF s = <<>> THEN TRUE
    ELSE IF Head(s) # Head(t) THEN CharOrd(Head(s)) < CharOrd(Head(t))
    ELSE LexLess(Tail(s), Tail(t))

\* seq[i] as Python indexes a list: from 0, a negative i counting from the end.
PyIndex(seq, i) == IF i < 0 THEN seq[Len(seq) + i + 1] ELSE seq[i + 1]

(***************************************************************************)
(* SpecIndex: get_saved_sessions, one enumerated transcript file per step. *)
(***************************************************************************)
\* A record with every field lines 163-173 read of the right shape.
WellFormedRecord(r) ==
    /\ r.json = "object"
    /\ r.message = "object"
    /\ r.cwd # "null"
    /\ r.ts.kind = "iso"

WellFormed(f) == WellFormedRecord(f.first) /\ WellFormedRecord(f.last)

\* What the scan of a file leaves behind: the file's stem, whether the file
\* was well-formed (history), and what lines 144-180 made of it.
Scans == {[id |-> f.id, good |-> WellFormed(f), result |-> IndexFile(f)] : f \in Files}

ScannedIds == {s.id : s \in scanned}

\* Lines 143-180: the next file of the directory, whatever it is.
ScanFile ==
    /\ ipc = "scanning"
    /\ \E s \in Scans :
        /\ s.id \notin ScannedIds
        /\ scanned' = scanned \cup {[id |-> s.id, good |-> s.good]}
        /\ IF s.result.outcome = "raise"
           THEN /\ ipc' = "raised"
                /\ proc' = s.result.exc
                /\ UNCHANGED sessions
           ELSE /\ sessions' = IF s.result.outcome = "session"
                               THEN Append(sessions, s.result.session)
                               ELSE sessions
                /\ UNCHANGED <<ipc, proc>>
    /\ UNCHANGED <<tailVars, tuiVars, arg, console, target, cwd_changed, cpc>>

\* Lines 182-183: the enumeration is over; sort and return.
SortAndReturn ==
    /\ ipc = "scanning"
    /\ sessions' = SortByActivity(sessions)
    /\ ipc' = "returned"
    /\ UNCHANGED <<scanned, tailVars, tuiVars, attachVars>>

IdleAttach ==
    /\ arg = <<>>
    /\ console = None
    /\ target = NoSession
    /\ proc = "python"
    /\ cwd_changed = FALSE
    /\ cpc = "idle"

IdleTui ==
    /\ rows = <<>>
    /\ cursor_row = 0
    /\ selected_session = NoSession
    /\ last_op = None
    /\ old_rows = <<>>
    /\ old_cursor = 0

IdleIndex == sessions = <<>> /\ scanned = {} /\ ipc = "idle"

IndexInit ==
    /\ sessions = <<>>
    /\ scanned = {}
    /\ ipc = "scanning"
    /\ IdleTail /\ IdleAttach /\ IdleTui

IndexNext == ScanFile \/ SortAndReturn

SpecIndex == IndexInit /\ [][IndexNext]_vars
(***************************************************************************)
(* Properties of get_saved_sessions, under SpecIndex.                      *)
(***************************************************************************)
\* C2: the list get_saved_sessions returns is ordered by last_activity
\* descending and, among equal last_activity, by session identifier ascending:
\* of two adjacent sessions the first is strictly later, or as late with the
\* smaller identifier.
C2_SortedByActivityThenId ==
    ipc = "returned" =>
        \A i \in 1..(Len(sessions) - 1) :
            \/ sessions[i].last_activity > sessions[i + 1].last_activity
            \/ /\ sessions[i].last_activity = sessions[i + 1].last_activity
               /\ LexLess(sessions[i].session_id, sessions[i + 1].session_id)

\* C3: every session emitted from a chronological transcript has
\* created <= last_activity, whatever UTC offsets its timestamps carry.
C3_CreatedNotAfterLastActivity ==
    \A i \in 1..Len(sessions) : sessions[i].created <= sessions[i].last_activity

\* C4: get_saved_sessions never raises, and what it returns holds exactly one
\* session for each well-formed file enumerated and none for any other file.
C4_MalformedDataNeverAborts ==
    /\ ipc # "raised"
    /\ ipc = "returned" =>
        /\ {sessions[i].session_id : i \in 1..Len(sessions)}
             = {s.id : s \in {x \in scanned : x.good}}
        /\ Len(sessions) = Cardinality({x \in scanned : x.good})

(***************************************************************************)
(* attach_to_session (lines 186-196), called by cmd_attach and cmd_list.   *)
(***************************************************************************)
\* What os.chdir(cwd) can do: succeed (None) or raise.  A cwd that is no
\* string (a JSON null in the first record) is a TypeError; for a path the
\* file system decides.
ChdirOutcomes(cwd) ==
    IF cwd = "null" THEN {"TypeError"}
    ELSE {None, "FileNotFoundError", "PermissionError", "NotADirectoryError"}

\* Line 193: the exceptions attach_to_session ignores.
ChdirIgnored == {"FileNotFoundError", "PermissionError"}

\* Lines 188-194: the change of directory.
AttachChdir ==
    /\ cpc = "attach"
    /\ \E e \in ChdirOutcomes(target.cwd) :
        IF e = None
        THEN /\ cwd_changed' = TRUE
             /\ cpc' = "exec"
             /\ UNCHANGED proc
        ELSE IF e \in ChdirIgnored
        THEN /\ cpc' = "exec"
             /\ UNCHANGED <<cwd_changed, proc>>
        ELSE /\ proc' = e
             /\ cpc' = "raised"
             /\ UNCHANGED cwd_changed
    /\ UNCHANGED <<arg, console, target, tailVars, indexVars, tuiVars>>

\* Line 196: os.execlp("claude", "claude", "--resume", session_id), with
\* session_id that of target.
AttachExec ==
    /\ cpc = "exec"
    /\ proc' = "claude --resume"
    /\ cpc' = "replaced"
    /\ UNCHANGED <<arg, console, target, cwd_changed, tailVars, indexVars, tuiVars>>

(***************************************************************************)
(* SpecAttach: cmd_attach with a session argument (lines 438-468).         *)
(***************************************************************************)
\* The transcript files of SpecAttach and SpecTui: files of one record, with
\* a timestamp in UTC, an empty file and a file whose record is no object.
SimpleFiles(cwds) ==
    {f \in FilesOver(FirstRecords(cwds)) :
        /\ f.first = f.last
        /\ \/ f.first.json \in {"blank", "other"}
           \/ /\ f.first.json = "object"
              /\ f.first.type = "assistant"
              /\ f.first.ts.kind = "iso"
              /\ f.first.ts.off = 0}

AttachSnapshots == SnapshotsOver(SimpleFiles({"/w", "null"}))

\* args.session: numbers, identifiers and prefixes of identifiers.
Args ==
    {<<"0">>, <<"1">>, <<"2">>, <<"3">>, <<"4">>, <<"0", "2">>, <<"1", "0">>,
     <<"-", "1">>, <<"a">>, <<"a", "b">>, <<"b">>, <<"c">>}

\* Line 452: the index is one of the list.
ValidIndexNoLowerBound(idx, n) == idx < n

ValidIndex(idx, n) == 0 <= idx /\ idx < n

\* Lines 458-462: the first session whose identifier starts with session_id,
\* or NoSession.
RECURSIVE FirstWithPrefix(_, _)
FirstWithPrefix(list, session_id) ==
    IF list = <<>> THEN NoSession
    ELSE IF StartsWith(Head(list).session_id, session_id) THEN Head(list)
    ELSE FirstWithPrefix(Tail(list), session_id)

\* Lines 440-445: the saved sessions are read; none ends the command.
CmdAttachLoad ==
    /\ cpc = "start"
    /\ \E snap \in AttachSnapshots :
        IF snap.status = "raised"
        THEN /\ proc' = snap.exc
             /\ cpc' = "raised"
             /\ UNCHANGED <<sessions, console>>
        ELSE /\ sessions' = snap.sessions
             /\ UNCHANGED proc
             /\ IF snap.sessions = <<>>
                THEN console' = "No saved sessions found." /\ cpc' = "returned"
                ELSE UNCHANGED console /\ cpc' = "resolve"
    /\ UNCHANGED <<arg, target, cwd_changed, scanned, ipc, tailVars, tuiVars>>

\* Lines 447-468: the argument is resolved to a session, which is handed to
\* attach_to_session, or a message is printed.
CmdAttachResolve ==
    /\ cpc = "resolve"
    /\ LET number == IsDigit(arg)
           idx == IF number THEN IntOf(arg) - 1 ELSE 0
       IN IF number /\ ~ValidIndex(idx, Len(sessions))
          THEN /\ console' = "Invalid session number"
               /\ cpc' = "returned"
               /\ UNCHANGED target
          ELSE LET session_id == IF number THEN PyIndex(sessions, idx).session_id
                                 ELSE arg
                   target_session == FirstWithPrefix(sessions, session_id)
               IN IF target_session = NoSession
                  THEN /\ console' = "Session not found"
                       /\ cpc' = "returned"
                       /\ UNCHANGED target
                  ELSE /\ target' = target_session
                       /\ cpc' = "attach"
                       /\ UNCHANGED console
    /\ UNCHANGED <<arg, proc, cwd_changed, tailVars, indexVars, tuiVars>>

AttachInit ==
    /\ arg \in Args
    /\ console = None
    /\ target = NoSession
    /\ proc = "python"
    /\ cwd_changed = FALSE
    /\ cpc = "start"
    /\ IdleTail /\ IdleIndex /\ IdleTui

AttachNext == CmdAttachLoad \/ CmdAttachResolve \/ AttachChdir \/ AttachExec

SpecAttach == AttachInit /\ [][AttachNext]_vars

\* Whether args.session is taken as a number, and the number is no index of
\* the saved list.
OutOfRange == IsDigit(arg) /\ ~(1 <= IntOf(arg) /\ IntOf(arg) <= Len(sessions))

\* C6: `attach N` with 1 <= N <= the number of saved sessions hands the N-th
\* entry of the saved list to attach_to_session.
C6_AttachByNumberResumesNth ==
    (IsDigit(arg) /\ ~OutOfRange /\ cpc \notin {"start", "resolve", "raised"})
    => (target = sessions[IntOf(arg)])

\* C7: `attach N` with N out of range prints the invalid-session-number
\* message and returns; attach_to_session is never called.
C7_OutOfRangeInvalidNumber ==
    (OutOfRange /\ cpc \notin {"start", "resolve", "raised"})
    => /\ cpc = "returned"
       /\ console = "Invalid session number"
       /\ target = NoSession /\ proc = "python" /\ ~cwd_changed

\* C7 as amended: out of range, attach_to_session is never called, nothing
\* changes the directory or replaces the process, and the command returns
\* having printed the invalid-session-number message when there are saved
\* sessions and the no-saved-sessions message when there are none; when
\* get_saved_sessions raises, nothing is printed.
C7_OutOfRangeNoSideEffects ==
    OutOfRange =>
        /\ target = NoSession /\ proc \notin {"claude --resume"} /\ ~cwd_changed
        /\ cpc \in {"start", "returned", "resolve", "raised"}
        /\ cpc = "returned" =>
             console = IF sessions = <<>> THEN "No saved sessions found."
                       ELSE "Invalid session number"
        /\ cpc = "raised" => console = None

C7_Witness ==
    /\ OutOfRange
    /\ sessions # <<>>
    /\ cpc = "returned"
    /\ console = "Invalid session number"

\* C8: whatever makes the change of directory fail, the failure is ignored
\* and the process is replaced by `claude --resume <session_id>`: the call of
\* attach_to_session never ends in an exception.
C8_HandoffDespiteChdirFailure ==
    target # NoSession => cpc \in {"attach", "exec", "replaced"}

(***************************************************************************)
(* SpecTui: SessionsApp (lines 202-311) run by cmd_list (lines 409-416).   *)
(***************************************************************************)
\* Line 270 shows the first 50 sessions; the model scales the limit down so
\* that a list longer than the table can be enumerated.
RowLimit == 2

TuiSnapshots == SnapshotsOver(SimpleFiles({"/w"}))

\* Lines 270-278: one row per session of self.sessions[:50], keyed by its
\* identifier.
RowKeys(list) == [i \in 1..Min(Len(list), RowLimit) |-> list[i].session_id]

\* Line 282: the row the cursor is moved to, the table holding row_count rows.
RestoreCursorUnclamped(saved_row, row_count) == saved_row

RestoreCursor(saved_row, row_count) == Min(saved_row, row_count - 1)

\* Lines 299-303 and 307-311: the first session of self.sessions with the
\* identifier, or NoSession.
FindSessionByPrefix(list, session_id) == FirstWithPrefix(list, session_id)

RECURSIVE FindSession(_, _)
FindSession(list, session_id) ==
    IF list = <<>> THEN NoSession
    ELSE IF Head(list).session_id = session_id THEN Head(list)
    ELSE FindSession(Tail(list), session_id)

\* refresh_sessions (lines 261-286) with what get_saved_sessions returns: the
\* list is replaced, the table cleared and filled, the cursor moved back to
\* the row it was on.  An exception of get_saved_sessions leaves the handler.
RefreshSessions(snap) ==
    IF snap.status = "raised"
    THEN /\ proc' = snap.exc
         /\ cpc' = "raised"
         /\ UNCHANGED <<sessions, rows, cursor_row, old_rows, old_cursor, last_op>>
    ELSE LET saved_row == IF Len(rows) > 0 THEN cursor_row ELSE 0    \* line 266
             new_rows == RowKeys(snap.sessions)
         IN /\ sessions' = snap.sessions
            /\ rows' = new_rows
            /\ cursor_row' = IF Len(new_rows) > 0
                             THEN RestoreCursor(saved_row, Len(new_rows))
                             ELSE 0                                  \* line 268
            /\ old_rows' = rows
            /\ old_cursor' = cursor_row
            /\ last_op' = "refresh"
            /\ cpc' = "running"
            /\ UNCHANGED proc

tuiFixed == <<tailVars, scanned, ipc, arg, console, cwd_changed>>

\* on_mount (lines 254-259): the first refresh; the timer is started.
OnMount ==
    /\ cpc = "mount"
    /\ \E snap \in TuiSnapshots : RefreshSessions(snap)
    /\ UNCHANGED <<selected_session, target, tuiFixed>>

\* The 3-second timer of line 259 fires.
TimerRefresh ==
    /\ cpc = "running"
    /\ \E snap \in TuiSnapshots : RefreshSessions(snap)
    /\ UNCHANGED <<selected_session, target, tuiFixed>>

\* action_refresh (lines 288-289), the key r.
ActionRefresh ==
    /\ cpc = "running"
    /\ \E snap \in TuiSnapshots : RefreshSessions(snap)
    /\ UNCHANGED <<selected_session, target, tuiFixed>>

\* The DataTable's own arrow keys (cursor_type "row", line 256).
CursorDown ==
    /\ cpc = "running"
    /\ cursor_row + 1 < Len(rows)
    /\ cursor_row' = cursor_row + 1
    /\ last_op' = "move"
    /\ UNCHANGED <<sessions, rows, old_rows, old_cursor, selected_session, target,
                   proc, cpc, tuiFixed>>

CursorUp ==
    /\ cpc = "running"
    /\ cursor_row > 0
    /\ cursor_row' = cursor_row - 1
    /\ last_op' = "move"
    /\ UNCHANGED <<sessions, rows, old_rows, old_cursor, selected_session, target,
                   proc, cpc, tuiFixed>>

\* Lines 299-303, 307-311: the session with the row's key is selected and the
\* application exits.
SelectByKey(session_id) ==
    LET session == FindSession(sessions, session_id)
    IN IF session # NoSession
       THEN selected_session' = session /\ cpc' = "exited"
       ELSE UNCHANGED <<selected_session, cpc>>

\* action_select (lines 291-303), the key enter.
ActionSelect ==
    /\ cpc = "running"
    /\ IF Len(rows) = 0
       THEN UNCHANGED <<selected_session, cpc>>
       ELSE SelectByKey(rows[cursor_row + 1])
    /\ last_op' = "select"
    /\ UNCHANGED <<sessions, rows, cursor_row, old_rows, old_cursor, target, proc,
                   tuiFixed>>

\* on_data_table_row_selected (lines 305-311): the table reports the row under
\* the cursor as selected.
OnRowSelected ==
    /\ cpc = "running"
    /\ Len(rows) > 0
    /\ SelectByKey(rows[cursor_row + 1])
    /\ last_op' = "select"
    /\ UNCHANGED <<sessions, rows, cursor_row, old_rows, old_cursor, target, proc,
                   tuiFixed>>

\* The keys q and escape (lines 238, 241): App.action_quit.
ActionQuit ==
    /\ cpc = "running"
    /\ cpc' = "exited"
    /\ last_op' = "quit"
    /\ UNCHANGED <<sessions, rows, cursor_row, old_rows, old_cursor, selected_session,
                   target, proc, tuiFixed>>

\* cmd_list, lines 415-416: app.run() has returned.
CmdListHandoff ==
    /\ cpc = "exited"
    /\ IF selected_session # NoSession
       THEN target' = selected_session /\ cpc' = "attach"
       ELSE UNCHANGED target /\ cpc' = "returned"
    /\ UNCHANGED <<sessions, rows, cursor_row, old_rows, old_cursor, selected_session,
                   last_op, proc, tuiFixed>>

\* SessionsApp.__init__ (lines 244-247) has run.
TuiInit ==
    /\ sessions = <<>>
    /\ selected_session = NoSession
    /\ rows = <<>>
    /\ cursor_row = 0
    /\ last_op = None
    /\ old_rows = <<>>
    /\ old_cursor = 0
    /\ scanned = {}
    /\ ipc = "idle"
    /\ arg = <<>>
    /\ console = None
    /\ target = NoSession
    /\ proc = "python"
    /\ cwd_changed = FALSE
    /\ cpc = "mount"
    /\ IdleTail

TuiNext ==
    \/ OnMount \/ TimerRefresh \/ ActionRefresh
    \/ CursorDown \/ CursorUp
    \/ ActionSelect \/ OnRowSelected \/ ActionQuit
    \/ CmdListHandoff \/ AttachChdir \/ AttachExec

SpecTui == TuiInit /\ [][TuiNext]_vars

\* The identifier under the cursor before the last refresh (<<>> when the
\* table was empty), and whether the refresh kept it.
OldKey == IF old_rows = <<>> THEN <<>> ELSE old_rows[old_cursor + 1]

KeyKept == \E i \in 1..Len(rows) : rows[i] = OldKey

\* C1: after a refresh, if the identifier that was under the cursor is still
\* among the rows, the cursor is on the row with that identifier.
C1_CursorFollowsIdentifier ==
    (last_op = "refresh" /\ KeyKept) => rows[cursor_row + 1] = OldKey

\* C10: after a refresh that leaves at least one row the cursor is on a row of
\* the table, and when the identifier that was under it is gone the cursor is
\* at min(old cursor row, row count - 1).
C10_CursorClampedOnRefresh ==
    (last_op = "refresh" /\ Len(rows) > 0) =>
        /\ 0 <= cursor_row /\ cursor_row < Len(rows)
        /\ ~KeyKept => cursor_row = Min(old_cursor, Len(rows) - 1)

\* The refresh dropped the identifier under the cursor and left fewer rows
\* than the cursor's row: the cursor was clamped.
C10_Witness ==
    /\ last_op = "refresh"
    /\ old_rows # <<>> /\ ~KeyKept
    /\ Len(rows) > 0
    /\ old_cursor > Len(rows) - 1
    /\ cursor_row = Len(rows) - 1

TailInit ==
    /\ file_bytes \in ValidFiles
    /\ first_line = <<>>
    /\ last_line = <<>>
    /\ tpc = "open"
    /\ IdleIndex /\ IdleAttach /\ IdleTui

TailNext == ReadFirstLine \/ ReadTail

SpecTail == TailInit /\ [][TailNext]_vars

\* C5: when the file's last line is shorter than the read window, the last
\* record extracted from the trailing window is the last record of the whole
\* file, wherever the window starts.
C5_TailReadEqualsWholeRead ==
    (tpc \in {"read", "skipped_error"}
        /\ ByteLen(WholeLastLine(file_bytes)) < ReadWindow)
    => (tpc = "read" /\ last_line = WholeLastLine(file_bytes))

====
